---- MODULE Spec2Model ----
(***************************************************************************)
(* The pound terminal text editor (src/src/main.rs) as a state machine.    *)
(*                                                                         *)
(* A Rust String is modelled as the sequence of its Unicode scalars, each  *)
(* scalar being its code point.  Every position the program keeps or       *)
(* passes to String::len, String::insert, String::remove or a slice is a   *)
(* BYTE offset of the UTF-8 encoding, so the model computes byte offsets   *)
(* from the scalars' encoded widths and reproduces the panics of the       *)
(* standard library on offsets that are out of range or inside a scalar.   *)
(***************************************************************************)
EXTENDS Integers, Sequences, FiniteSets, TLC

VARIABLES
    row_contents,    \* EditorRows.row_contents: Seq of [row_content, render]
    filename,        \* EditorRows.filename: None or Some(name), name being the final
                     \* component of the path (Path::file_name)
    win_size,        \* Output.win_size = <<screen_columns, screen_rows>>
    cursor_x,        \* CursorController.cursor_x (a byte offset)
    cursor_y,        \* CursorController.cursor_y
    row_offset,      \* CursorController.row_offset
    column_offset,   \* CursorController.column_offset
    render_x,        \* CursorController.render_x
    dirty,           \* Output.dirty
    quit_times,      \* Editor.quit_times
    status_message,  \* StatusMessage: [message, set_time]
    now,             \* the monotonic clock read by Instant::now, in whole polls of
                     \* POLL_MS passed; no two readings of the clock are equal, so a
                     \* reading taken at n is followed by readings later than n
    session,         \* "Running", "Quitting", "Failed" (Err returned), "Panicked", or
                     \* "Aborted" (a panic while a panic unwinds)
    pc,              \* position in Editor::run: "refresh_screen" or "process_keypress";
                     \* "exit" once main is left and _clean_up is dropped
    last_key,        \* the key event this run of the loop read (None until it is read)
    quit_presses,    \* length of the run of Ctrl-Q events that ends the keys read so far
    timed_out,       \* the current Reader::read_key has polled without a key event
    raw_mode,        \* the terminal is in raw mode (enable_raw_mode .. disable_raw_mode)
    teardowns,       \* runs of CleanUp::drop so far
    clears,          \* runs of Output::clear_screen that returned Ok so far
    rows_changed,    \* a row was changed, added or removed since the load or the
                     \* last save that succeeded
    message_set      \* the status message as StatusMessage::new or set_message set
                     \* it last (kept when the message expires)

vars == <<row_contents, filename, win_size, cursor_x, cursor_y,
          row_offset, column_offset, render_x, dirty, quit_times,
          status_message, now, session, pc, last_key, quit_presses,
          timed_out, raw_mode, teardowns, clears, rows_changed, message_set>>

cursorVars == <<cursor_x, cursor_y>>
mainVars == <<raw_mode, teardowns, clears>>
scrollVars == <<row_offset, column_offset, render_x>>

-----------------------------------------------------------------------------
(* Program constants *)

TAB_STOP == 8
QUIT_TIMES == 3
MESSAGE_TTL == 5         \* seconds
POLL_MS == 500           \* milliseconds a poll of read_key waits

(* Code points of the scalars the model uses *)
Tab == 9
LineFeed == 10
CarriageReturn == 13
Space == 32

(* Bounds of the model *)
MaxFileLen == 1         \* scalars in the file loaded at start
MaxChars == 2           \* scalars in the buffer, over all rows (inserts stop here)
MaxDirty == 2           \* dirty counter (edits stop here)
MaxRows == 3            \* rows of the buffer (appending a row stops here)
MaxLineLen == 8         \* scalars of the line whose rendering alone is checked
MaxLines == 3           \* lines of the buffer that is saved and loaded again
MaxTime == 12           \* polls on the clock (time stops here)

(* Inputs: the scalars a file or a key event may hold, and the terminal    *)
(* geometries (terminal::size with the two bar rows taken off).            *)
Chars == {97, Tab, 233}     \* 'a', tab and U+00E9, which is two bytes in UTF-8
FileNames == {<<233>>, <<97, 97, 233>>}     \* a name whose U+00E9 a terminal 1 column
                                            \* wide cuts, and one cut by 3 columns
WinSizes == {<<1, 1>>, <<3, 2>>}

(* The whole polls a wait lets pass on the clock: one, or as many as make   *)
(* the message of the status bar expire.                                   *)
ShortWaits == {1}
LongWaits == {(MESSAGE_TTL * 1000) \div POLL_MS}

(* 2^64 - 1, the value a usize wraps to below 0, is beyond the integers of *)
(* the checker; it is represented by the largest one.                      *)
UsizeMax == 2^30 + (2^30 - 1)

Min(a, b) == IF a < b THEN a ELSE b
Max(a, b) == IF a > b THEN a ELSE b

-----------------------------------------------------------------------------
(* Strings *)

\* char::len_utf8
len_utf8(c) == IF c < 128 THEN 1 ELSE IF c < 2048 THEN 2 ELSE IF c < 65536 THEN 3 ELSE 4

\* str::len: the length in bytes
RECURSIVE str_len(_)
str_len(s) == IF s = <<>> THEN 0 ELSE len_utf8(Head(s)) + str_len(Tail(s))

\* the prefix of s with k scalars
Take(s, k) == SubSeq(s, 1, k)

\* str::is_char_boundary
is_char_boundary(s, at) == \E k \in 0..Len(s) : str_len(Take(s, k)) = at

\* the number of scalars before byte offset at (a char boundary)
CharIndex(s, at) == CHOOSE k \in 0..Len(s) : str_len(Take(s, k)) = at

\* String::insert(at, ch) panics unless at is a char boundary
CanInsert(s, at) == is_char_boundary(s, at)
StrInsert(s, at, ch) ==
    LET k == CharIndex(s, at)
    IN  Take(s, k) \o <<ch>> \o SubSeq(s, k + 1, Len(s))

\* String::remove(at) panics unless a scalar starts at at
CanRemove(s, at) == at < str_len(s) /\ is_char_boundary(s, at)
StrRemove(s, at) ==
    LET k == CharIndex(s, at)
    IN  Take(s, k) \o SubSeq(s, k + 2, Len(s))

\* &s[start..end] panics unless both ends are char boundaries
CanSlice(s, start, end) ==
    start <= end /\ is_char_boundary(s, start) /\ is_char_boundary(s, end)
StrSlice(s, start, end) == SubSeq(s, CharIndex(s, start) + 1, CharIndex(s, end))

-----------------------------------------------------------------------------
(* EditorRows *)

\* a slip: the tab stops are taken one column late
RECURSIVE PadTabLate(_, _)
PadTabLate(render, index) ==
    IF index % TAB_STOP # 1
    THEN PadTabLate(Append(render, Space), index + 1)
    ELSE [render |-> render, index |-> index]

\* the inner loop of render_row: pad with spaces up to the tab stop
RECURSIVE PadTab(_, _)
PadTab(render, index) ==
    IF index % TAB_STOP # 0
    THEN PadTab(Append(render, Space), index + 1)
    ELSE [render |-> render, index |-> index]

\* the body of render_row's for_each on scalar c
RenderChar(acc, c) ==
    IF c = Tab
    THEN PadTab(Append(acc.render, Space), acc.index + 1)
    ELSE [render |-> Append(acc.render, c), index |-> acc.index + 1]

RECURSIVE RenderFold(_, _)
RenderFold(acc, s) ==
    IF s = <<>> THEN acc ELSE RenderFold(RenderChar(acc, Head(s)), Tail(s))

\* EditorRows::render_row: the render of a raw row
render_row(row_content) == RenderFold([render |-> <<>>, index |-> 0], row_content).render

\* Row::new followed by render_row, and Row::default
Row(row_content) == [row_content |-> row_content, render |-> render_row(row_content)]
DefaultRow == [row_content |-> <<>>, render |-> <<>>]

number_of_rows == Len(row_contents)
get_row(rows, at) == rows[at + 1].row_content
get_render(rows, at) == rows[at + 1].render

\* a line without the carriage return that ends it, if one does
StripCR(line) ==
    IF line # <<>> /\ line[Len(line)] = CarriageReturn
    THEN SubSeq(line, 1, Len(line) - 1) ELSE line

\* str::lines: split at line feeds; a final line feed ends the last line; a
\* carriage return before a line feed belongs to the line break.  A carriage
\* return that ends the text is kept by the standard library since Rust 1.66
\* and stripped by the ones before (strips_last).
RECURSIVE SplitLines(_, _, _, _)
SplitLines(text, line, lines, strips_last) ==
    IF text = <<>>
    THEN IF line = <<>> THEN lines
         ELSE Append(lines, IF strips_last THEN StripCR(line) ELSE line)
    ELSE IF Head(text) = LineFeed
         THEN SplitLines(Tail(text), <<>>, Append(lines, StripCR(line)), strips_last)
         ELSE SplitLines(Tail(text), Append(line, Head(text)), lines, strips_last)
lines(text) == SplitLines(text, <<>>, <<>>, FALSE)

\* the rows from_file makes of the lines (lines 201-207)
rows_of(ls) == [i \in 1..Len(ls) |-> Row(ls[i])]

\* EditorRows::from_file
from_file(text) == rows_of(lines(text))

\* a slip: the rows are joined without a separator
RECURSIVE JoinRows_unseparated(_)
JoinRows_unseparated(rows) ==
    IF rows = <<>> THEN <<>>
    ELSE rows[1].row_content \o JoinRows_unseparated(Tail(rows))

\* the contents save writes: the rows joined by line feeds
RECURSIVE JoinRows(_)
JoinRows(rows) ==
    IF rows = <<>> THEN <<>>
    ELSE IF Len(rows) = 1 THEN rows[1].row_content
    ELSE rows[1].row_content \o <<LineFeed>> \o JoinRows(Tail(rows))

\* a slip: delete_char leaves the render as it was
row_delete_char_stale(rows, y, at) ==
    [rows EXCEPT ![y + 1].row_content = StrRemove(rows[y + 1].row_content, at)]

\* Row::insert_char and Row::delete_char on row at
row_insert_char(rows, y, at, ch) ==
    [rows EXCEPT ![y + 1] = Row(StrInsert(rows[y + 1].row_content, at, ch))]
row_delete_char(rows, y, at) ==
    [rows EXCEPT ![y + 1] = Row(StrRemove(rows[y + 1].row_content, at))]

\* a slip: the removed row's content is put in front of the previous row's
join_adjacent_rows_swapped(rows, at) ==
    LET removed == [i \in 1..(Len(rows) - 1) |-> IF i <= at THEN rows[i] ELSE rows[i + 1]]
    IN  [removed EXCEPT ![at] = Row(rows[at + 1].row_content \o rows[at].row_content)]

\* EditorRows::join_adjacent_rows
join_adjacent_rows(rows, at) ==
    LET removed == [i \in 1..(Len(rows) - 1) |-> IF i <= at THEN rows[i] ELSE rows[i + 1]]
    IN  [removed EXCEPT ![at] = Row(rows[at].row_content \o rows[at + 1].row_content)]

-----------------------------------------------------------------------------
(* CursorController *)

screen_columns == win_size[1]
screen_rows == win_size[2]

Directions == {"Up", "Down", "Left", "Right", "Home", "End"}

\* the length move_cursor clamps cursor_x to (lines 528-532)
row_len(rows, y) == IF y < Len(rows) THEN str_len(get_row(rows, y)) ELSE 0

\* a slip: Right at the end of the last row stays there
move_step_stops_at_last_row(direction, x, y, rows) ==
    CASE direction = "Up"    -> <<x, IF y = 0 THEN 0 ELSE y - 1>>
      [] direction = "Left"  -> IF x # 0 THEN <<x - 1, y>>
                                ELSE <<str_len(rows[y].row_content), y - 1>>
      [] direction = "Down"  -> IF y < Len(rows) THEN <<x, y + 1>> ELSE <<x, y>>
      [] direction = "Right" -> IF y < Len(rows)
                                THEN IF x < str_len(rows[y + 1].row_content) THEN <<x + 1, y>>
                                     ELSE IF x = str_len(rows[y + 1].row_content)
                                             /\ y + 1 < Len(rows)
                                          THEN <<0, y + 1>>
                                     ELSE <<x, y>>
                                ELSE <<x, y>>
      [] direction = "Home"  -> <<0, y>>
      [] direction = "End"   -> IF y < Len(rows) THEN <<str_len(rows[y + 1].row_content), y>>
                                ELSE <<x, y>>

\* the match of move_cursor (lines 488-526), before the clamp: <<cursor_x, cursor_y>>
move_step(direction, x, y, rows) ==
    CASE direction = "Up"    -> <<x, IF y = 0 THEN 0 ELSE y - 1>>
      [] direction = "Left"  -> IF x # 0 THEN <<x - 1, y>>
                                ELSE <<str_len(get_row(rows, y - 1)), y - 1>>
      [] direction = "Down"  -> IF y < Len(rows) THEN <<x, y + 1>> ELSE <<x, y>>
      [] direction = "Right" -> IF y < Len(rows)
                                THEN IF x < str_len(get_row(rows, y)) THEN <<x + 1, y>>
                                     ELSE IF x = str_len(get_row(rows, y)) THEN <<0, y + 1>>
                                     ELSE <<x, y>>
                                ELSE <<x, y>>
      [] direction = "Home"  -> <<0, y>>
      [] direction = "End"   -> IF y < Len(rows) THEN <<str_len(get_row(rows, y)), y>>
                                ELSE <<x, y>>

\* Left at column 0 of row 0: cursor_y -= 1 below 0 (line 496)
move_panics(direction, x, y) == direction = "Left" /\ x = 0 /\ y = 0

\* CursorController::move_cursor where it does not panic: <<cursor_x, cursor_y>>
move_cursor(direction, x, y, rows) ==
    LET m == move_step(direction, x, y, rows)
    IN  <<Min(m[1], row_len(rows, m[2])), m[2]>>

\* move_cursor applied times times (the for_each of lines 94-100)
RECURSIVE move_times(_, _, _, _, _)
move_times(times, direction, x, y, rows) ==
    IF times = 0 THEN <<x, y>>
    ELSE LET m == move_cursor(direction, x, y, rows)
         IN  move_times(times - 1, direction, m[1], m[2], rows)

\* a slip: a tab takes the render column forward by a whole tab stop
RECURSIVE RenderXFold_whole_tab(_, _)
RenderXFold_whole_tab(rx, s) ==
    IF s = <<>> THEN rx
    ELSE RenderXFold_whole_tab(IF Head(s) = Tab THEN rx + TAB_STOP ELSE rx + 1, Tail(s))

\* the fold of get_render_x over the scalars before the cursor
RECURSIVE RenderXFold(_, _)
RenderXFold(rx, s) ==
    IF s = <<>> THEN rx
    ELSE RenderXFold(IF Head(s) = Tab
                     THEN rx + (TAB_STOP - 1) - (rx % TAB_STOP) + 1
                     ELSE rx + 1,
                     Tail(s))

\* CursorController::get_render_x; the slice panics off a char boundary
get_render_x_panics(row_content, x) == ~CanSlice(row_content, 0, x)
get_render_x(row_content, x) == RenderXFold(0, StrSlice(row_content, 0, x))

\* a slip: the offset grows one short
scroll_row_offset_short(offset, y, rows_on_screen) ==
    LET shrunk == Min(offset, y)
    IN  IF y >= shrunk + rows_on_screen THEN y - rows_on_screen ELSE shrunk

\* CursorController::scroll, lines 541-544 and 545-548
scroll_row_offset(offset, y, rows_on_screen) ==
    LET shrunk == Min(offset, y)
    IN  IF y >= shrunk + rows_on_screen THEN y - rows_on_screen + 1 ELSE shrunk
scroll_column_offset(offset, rx, columns_on_screen) ==
    LET shrunk == Min(offset, rx)
    IN  IF rx >= shrunk + columns_on_screen THEN rx - columns_on_screen + 1 ELSE shrunk

-----------------------------------------------------------------------------
(* StatusMessage *)

\* Option: None, or Some(v)
None == <<>>
Some(v) == <<v>>
HelpMessage == <<"HELP">>
Warning(times) == <<"WARNING", times>>
BytesWritten(len) == <<"bytes written", len>>

\* StatusMessage::set_message
set_message(message) == [message |-> Some(message), set_time |-> Some(now)]

\* Instant::elapsed of a set_time, in milliseconds rounded up to whole polls: more
\* than the whole polls passed since, by the time of the calls in between
elapsed(time) == (now - time + 1) * POLL_MS

\* a slip: the message expires when its age reaches the limit
message_expired_at_limit(sm) ==
    sm.set_time # None /\ elapsed(sm.set_time[1]) >= MESSAGE_TTL * 1000

\* StatusMessage::message: the status after the read (lazy expiry)
message_expired(sm) ==
    sm.set_time # None /\ elapsed(sm.set_time[1]) > MESSAGE_TTL * 1000
message_read(sm) ==
    IF message_expired(sm) THEN [message |-> None, set_time |-> None] ELSE sm

\* what StatusMessage::message returns
message_shown(sm) ==
    IF sm.set_time = None \/ message_expired(sm) THEN None ELSE sm.message

-----------------------------------------------------------------------------
(* Output *)

\* the slice draw_rows takes of a row's render (lines 336-340)
draw_row_panics(render, offset, columns) ==
    LET len   == Min(Max(str_len(render) - offset, 0), columns)
        start == IF len = 0 THEN 0 ELSE offset
    IN  ~CanSlice(render, start, start + len)

\* Output::draw_rows panics on some row of the screen
draw_rows_panics(rows, r_offset, c_offset) ==
    \E i \in 0..(screen_rows - 1) :
        /\ i + r_offset < Len(rows)
        /\ draw_row_panics(get_render(rows, i + r_offset), c_offset, screen_columns)

\* the text of the status bar (lines 355-365), as code points
RECURSIVE Decimal(_)
Decimal(n) == IF n < 10 THEN <<48 + n>> ELSE Append(Decimal(n \div 10), 48 + (n % 10))
NoName == <<91, 78, 111, 32, 110, 97, 109, 101, 93>>                \* "[No name]"
Modified == <<40, 109, 111, 100, 105, 102, 105, 101, 100, 41>>      \* "(modified)"
status_info(name, d, rows) ==
    (IF name = None THEN NoName ELSE name[1]) \o <<Space>>
        \o (IF d > 0 THEN Modified ELSE <<>>)
        \o <<Space, 45, 45, Space>> \o Decimal(Len(rows))
        \o <<Space, 108, 105, 110, 101, 115>>

\* Output::draw_status_bar panics in the slice of line 374
draw_status_bar_panics(name, d, rows, columns) ==
    LET info == status_info(name, d, rows)
    IN  ~CanSlice(info, 0, Min(str_len(info), columns))

\* Output::delete_char on cursor (x, y): the rows, cursor and dirty it leaves,
\* and whether String::remove panicked (lines 437-460)
delete_char(rows, x, y, d) ==
    IF y = Len(rows) \/ (y = 0 /\ x = 0)
    THEN [rows |-> rows, x |-> x, y |-> y, dirty |-> d, panicked |-> FALSE]
    ELSE IF x > 0
    THEN IF CanRemove(get_row(rows, y), x - 1)
         THEN [rows |-> row_delete_char(rows, y, x - 1), x |-> x - 1, y |-> y,
               dirty |-> d + 1, panicked |-> FALSE]
         ELSE [rows |-> rows, x |-> x, y |-> y, dirty |-> d, panicked |-> TRUE]
    ELSE [rows |-> join_adjacent_rows(rows, y), x |-> str_len(get_row(rows, y - 1)),
          y |-> y - 1, dirty |-> d + 1, panicked |-> FALSE]

\* Output::insert_char (lines 426-435); String::insert panics off a char boundary
insert_row(rows) == Append(rows, DefaultRow)

\* a slip: the insertion is not counted in dirty
insert_char_uncounted(rows, x, y, d, ch) ==
    LET appended == IF y = Len(rows) THEN insert_row(rows) ELSE rows
    IN  IF y < Len(appended) /\ CanInsert(get_row(appended, y), x)
        THEN [rows |-> row_insert_char(appended, y, x, ch), x |-> x + 1, y |-> y,
              dirty |-> d, panicked |-> FALSE]
        ELSE [rows |-> appended, x |-> x, y |-> y, dirty |-> d, panicked |-> TRUE]

insert_char(rows, x, y, d, ch) ==
    LET appended == IF y = Len(rows) THEN insert_row(rows) ELSE rows
    IN  IF y < Len(appended) /\ CanInsert(get_row(appended, y), x)
        THEN [rows |-> row_insert_char(appended, y, x, ch), x |-> x + 1, y |-> y,
              dirty |-> d + 1, panicked |-> FALSE]
        ELSE [rows |-> appended, x |-> x, y |-> y, dirty |-> d, panicked |-> TRUE]

-----------------------------------------------------------------------------
(* The state after construction: Editor::new, after main's enable_raw_mode *)

RECURSIVE SeqsUpTo(_, _)
SeqsUpTo(S, n) ==
    IF n = 0 THEN {<<>>}
    ELSE LET shorter == SeqsUpTo(S, n - 1)
         IN  shorter \cup {Append(t, c) : t \in shorter, c \in S}

Texts == SeqsUpTo(Chars \cup {LineFeed}, MaxFileLen)

\* the scalars of the buffer, over all rows
RECURSIVE TotalChars(_)
TotalChars(rows) ==
    IF rows = <<>> THEN 0 ELSE Len(rows[1].row_content) + TotalChars(Tail(rows))

Init ==
    /\ \/ /\ filename = None                      \* no argument: EditorRows::new
          /\ row_contents = <<>>
       \/ /\ \E name \in FileNames : filename = Some(name)      \* EditorRows::from_file
          /\ \E text \in Texts : row_contents = from_file(text)
    /\ win_size \in WinSizes
    /\ cursor_x = 0 /\ cursor_y = 0
    /\ row_offset = 0 /\ column_offset = 0 /\ render_x = 0
    /\ dirty = 0
    /\ quit_times = QUIT_TIMES
    /\ now = 0
    /\ status_message = [message |-> Some(HelpMessage), set_time |-> Some(now)]
    /\ session = "Running"
    /\ pc = "refresh_screen"
    /\ last_key = None
    /\ quit_presses = 0
    /\ timed_out = FALSE
    /\ raw_mode = TRUE
    /\ teardowns = 0
    /\ clears = 0
    /\ rows_changed = FALSE
    /\ message_set = status_message

-----------------------------------------------------------------------------
(* main: the CleanUp guard, and Editor::run: refresh_screen, then           *)
(* process_keypress.  The loop of main ends when run returns Ok(false) or  *)
(* Err, or when a panic unwinds through it; each way drops _clean_up next  *)
(* (a panic unwinds unless the build asks for panic = "abort", which       *)
(* nothing here does).                                                     *)

\* the loop of main is left with outcome (lines 624-628); _clean_up is still to drop
MainEnds(outcome) ==
    /\ session' = outcome
    /\ UNCHANGED mainVars

\* Output::refresh_screen (lines 401-419); flushed: the flush of line 418 returns Ok
refresh_screen(flushed) ==
    /\ session = "Running" /\ pc = "refresh_screen"
    /\ IF cursor_y < number_of_rows
          /\ get_render_x_panics(get_row(row_contents, cursor_y), cursor_x)
       THEN \* scroll panics in get_render_x, after line 537
            /\ render_x' = 0
            /\ MainEnds("Panicked")
            /\ UNCHANGED <<row_offset, column_offset, status_message, pc>>
       ELSE LET rx == IF cursor_y < number_of_rows
                      THEN get_render_x(get_row(row_contents, cursor_y), cursor_x)
                      ELSE 0
                ro == scroll_row_offset(row_offset, cursor_y, screen_rows)
                co == scroll_column_offset(column_offset, rx, screen_columns)
            IN  /\ render_x' = rx
                /\ row_offset' = ro
                /\ column_offset' = co
                /\ IF \/ draw_rows_panics(row_contents, ro, co)
                      \/ draw_status_bar_panics(filename, dirty, row_contents,
                                                screen_columns)
                   THEN /\ MainEnds("Panicked")
                        /\ UNCHANGED <<status_message, pc>>
                   ELSE /\ status_message' = message_read(status_message)
                        /\ IF flushed
                           THEN /\ pc' = "process_keypress"
                                /\ UNCHANGED <<session, mainVars>>
                           ELSE \* the `?` of line 135 returns the Err
                                /\ MainEnds("Failed")
                                /\ UNCHANGED pc
    /\ last_key' = None
    /\ UNCHANGED <<row_contents, rows_changed, filename, win_size, cursorVars, dirty, quit_times,
                   now, quit_presses, timed_out, message_set>>

\* a frame is drawn, or the drawing panics, on a terminal that takes the frame
RefreshScreen == refresh_screen(TRUE)

\* Reader::read_key returns key
ReadKey(key) ==
    /\ session = "Running" /\ pc = "process_keypress"
    /\ last_key' = key
    /\ quit_presses' = IF key = <<"CtrlQ">> THEN quit_presses + 1 ELSE 0
    /\ timed_out' = FALSE

\* a slip: process_keypress loops for the next key without a frame being drawn
KeyDone_skips_render ==
    /\ quit_times' = QUIT_TIMES
    /\ pc' = "process_keypress"
    /\ UNCHANGED <<session, mainVars>>

\* a slip: the quit counter is not reset
KeyDone_keeps_quit_times ==
    /\ pc' = "refresh_screen"
    /\ UNCHANGED <<quit_times, session, mainVars>>

\* the end of process_keypress (lines 130-131), back in Editor::run and main's loop
KeyDone ==
    /\ quit_times' = QUIT_TIMES
    /\ pc' = "refresh_screen"
    /\ UNCHANGED <<session, mainVars>>

\* a panic inside process_keypress
KeyPanic ==
    /\ MainEnds("Panicked")
    /\ UNCHANGED <<quit_times, pc>>

\* a slip: Ctrl-Q warns once only
quit_warns_once(d, times) == d > 0 /\ times = QUIT_TIMES

\* a slip: the last warning is skipped
quit_warns_one_less(d, times) == d > 0 /\ times > 1

\* the condition of line 59: this Ctrl-Q only warns
quit_warns(d, times) == d > 0 /\ times > 0

\* Ctrl-Q (lines 55-68)
KeyQuit ==
    /\ ReadKey(<<"CtrlQ">>)
    /\ IF quit_warns(dirty, quit_times)
       THEN /\ status_message' = set_message(Warning(quit_times))
            /\ message_set' = status_message'
            /\ quit_times' = quit_times - 1
            /\ pc' = "refresh_screen"
            /\ UNCHANGED <<session, mainVars>>
       ELSE \* Ok(false): the loop of line 626 ends and main returns Ok(())
            /\ MainEnds("Quitting")
            /\ UNCHANGED <<status_message, message_set, quit_times, pc>>
    /\ UNCHANGED <<row_contents, rows_changed, filename, win_size, cursorVars, scrollVars,
                   dirty, now>>

\* Up, Down, Left, Right, End, Home (lines 69-80)
KeyMove(direction) ==
    /\ ReadKey(<<direction>>)
    /\ IF move_panics(direction, cursor_x, cursor_y)
       THEN \* cursor_y -= 1 panics, or wraps and get_row panics
            /\ cursor_y' \in {cursor_y, UsizeMax}
            /\ UNCHANGED cursor_x
            /\ KeyPanic
       ELSE LET m == move_cursor(direction, cursor_x, cursor_y, row_contents)
            IN  /\ cursor_x' = m[1]
                /\ cursor_y' = m[2]
                /\ KeyDone
    /\ UNCHANGED <<row_contents, rows_changed, filename, win_size, scrollVars, dirty,
                   status_message, message_set, now>>

\* PageUp, PageDown (lines 81-101)
KeyPage(val) ==
    /\ ReadKey(<<val>>)
    /\ LET y0 == IF val = "PageUp" THEN row_offset
                 ELSE Min(screen_rows + row_offset - 1, number_of_rows)
           m  == move_times(screen_rows, IF val = "PageUp" THEN "Up" ELSE "Down",
                            cursor_x, y0, row_contents)
       IN  /\ cursor_x' = m[1]
           /\ cursor_y' = m[2]
    /\ KeyDone
    /\ UNCHANGED <<row_contents, rows_changed, filename, win_size, scrollVars, dirty,
                   status_message, message_set, now>>

\* Ctrl-S (lines 102-110) with EditorRows::save (lines 257-274)
KeySave ==
    /\ ReadKey(<<"CtrlS">>)
    /\ \/ \* save returns Err: no file name, or the file cannot be opened
          /\ MainEnds("Failed")
          /\ UNCHANGED <<status_message, message_set, dirty, quit_times, pc,
                         rows_changed>>
       \/ /\ filename # None
          /\ status_message' = set_message(BytesWritten(str_len(JoinRows(row_contents))))
          /\ message_set' = status_message'
          /\ dirty' = 0
          /\ rows_changed' = FALSE
          /\ KeyDone
    /\ UNCHANGED <<row_contents, filename, win_size, cursorVars, scrollVars, now>>

\* Backspace and Delete (lines 111-119)
KeyDelete(key) ==
    /\ ReadKey(<<key>>)
    /\ dirty < MaxDirty
    /\ LET m == IF key = "Delete"
                THEN move_cursor("Right", cursor_x, cursor_y, row_contents)
                ELSE <<cursor_x, cursor_y>>
           r == delete_char(row_contents, m[1], m[2], dirty)
       IN  /\ row_contents' = r.rows
           /\ cursor_x' = r.x
           /\ cursor_y' = r.y
           /\ dirty' = r.dirty
           /\ rows_changed' = (rows_changed \/ r.rows # row_contents)
           /\ IF r.panicked THEN KeyPanic ELSE KeyDone
    /\ UNCHANGED <<filename, win_size, scrollVars, status_message, message_set, now>>

\* Char(ch) and Tab, unmodified or shifted (lines 120-127)
KeyInsert(ch) ==
    /\ ReadKey(<<"Char", ch>>)
    /\ dirty < MaxDirty
    /\ TotalChars(row_contents) < MaxChars
    /\ cursor_y < number_of_rows \/ number_of_rows < MaxRows
    /\ LET r == insert_char(row_contents, cursor_x, cursor_y, dirty, ch)
       IN  /\ row_contents' = r.rows
           /\ cursor_x' = r.x
           /\ cursor_y' = r.y
           /\ dirty' = r.dirty
           /\ rows_changed' = (rows_changed \/ r.rows # row_contents)
           /\ IF r.panicked THEN KeyPanic ELSE KeyDone
    /\ UNCHANGED <<filename, win_size, scrollVars, status_message, message_set, now>>

\* any other key event (line 128)
KeyOther ==
    /\ ReadKey(<<"Other">>)
    /\ KeyDone
    /\ UNCHANGED <<row_contents, rows_changed, filename, win_size, cursorVars, scrollVars, dirty,
                   status_message, message_set, now>>

\* the fields a step of the clock or of the status message leaves alone
statusUnchanged ==
    UNCHANGED <<row_contents, filename, win_size, cursorVars, scrollVars, dirty,
                quit_times, session, pc, last_key, quit_presses, timed_out, mainVars,
                rows_changed>>

\* time passes while the editor runs or waits for an event: the clock passes
\* another polls whole polls
Tick(polls) ==
    /\ session = "Running"
    /\ now + polls <= MaxTime
    /\ now' = now + polls
    /\ UNCHANGED <<status_message, message_set>>
    /\ statusUnchanged

\* Reader::read_key (lines 28-34): a poll that times out, which takes POLL_MS and
\* the time of the call; the loop polls again
PollTimeout ==
    /\ session = "Running" /\ pc = "process_keypress"
    /\ now < MaxTime
    /\ now' = now + 1
    /\ timed_out' = TRUE
    /\ UNCHANGED <<row_contents, rows_changed, filename, win_size, cursorVars, scrollVars, dirty,
                   quit_times, status_message, message_set, session, pc, last_key,
                   quit_presses, mainVars>>

\* Reader::read_key: event::poll or event::read returns Err (lines 29-30), which
\* the `?` of line 54 returns
ReadError ==
    /\ session = "Running" /\ pc = "process_keypress"
    /\ MainEnds("Failed")
    /\ UNCHANGED <<row_contents, rows_changed, filename, win_size, cursorVars, scrollVars, dirty,
                   quit_times, status_message, message_set, now, pc, last_key,
                   quit_presses, timed_out>>

\* Output::refresh_screen returns the Err of the flush (line 418)
FlushError ==
    /\ refresh_screen(FALSE)
    /\ session' = "Failed"

\* CleanUp::drop (lines 17-22) as main is left: disable_raw_mode, then clear_screen;
\* the expect of either call panics on an Err, and a panic while another panic
\* unwinds aborts the process
CleanUpDrop ==
    /\ session # "Running" /\ pc # "exit"
    /\ teardowns' = teardowns + 1
    /\ \E disabled \in BOOLEAN, cleared \in BOOLEAN :
           /\ raw_mode' = (raw_mode /\ ~disabled)
           /\ clears' = IF disabled /\ cleared THEN clears + 1 ELSE clears
           /\ session' = IF disabled /\ cleared THEN session
                         ELSE IF session = "Panicked" THEN "Aborted" ELSE "Panicked"
    /\ pc' = "exit"
    /\ UNCHANGED <<row_contents, rows_changed, filename, win_size, cursorVars, scrollVars, dirty,
                   quit_times, status_message, message_set, now, last_key, quit_presses,
                   timed_out>>

Next ==
    \/ RefreshScreen
    \/ KeyQuit
    \/ \E direction \in Directions : KeyMove(direction)
    \/ \E val \in {"PageUp", "PageDown"} : KeyPage(val)
    \/ KeySave
    \/ \E key \in {"Backspace", "Delete"} : KeyDelete(key)
    \/ \E ch \in Chars : KeyInsert(ch)
    \/ KeyOther
    \/ \E polls \in LongWaits : Tick(polls)

\* the editor on a terminal whose reads and writes succeed and whose user may
\* pause for as long as a status message lasts (read_key polls again until a key
\* event comes; the polls that time out meanwhile are told apart in SpecMain only),
\* up to where the loop of main is left
Spec == Init /\ [][Next]_vars

-----------------------------------------------------------------------------
(* main started on an empty buffer and a terminal of 3 columns and 4 rows, *)
(* whose polls may time out and whose reads and writes may fail, up to the *)
(* end of the process.                                                     *)

InitMain == Init /\ row_contents = <<>> /\ win_size = <<3, 2>>

MainChars == {97, 233}

NextMain ==
    \/ RefreshScreen
    \/ KeyQuit
    \/ KeyMove("Left")
    \/ KeyPage("PageDown")
    \/ KeySave
    \/ \E ch \in MainChars : KeyInsert(ch)
    \/ KeyOther
    \/ \E polls \in ShortWaits : Tick(polls)
    \/ PollTimeout
    \/ ReadError
    \/ FlushError
    \/ CleanUpDrop

SpecMain == InitMain /\ [][NextMain]_vars

-----------------------------------------------------------------------------
(* EditorRows::from_file on a file of one line, stopped between Row::new    *)
(* (line 203) and render_row (line 204): the rendering of one row alone.    *)

Lines == SeqsUpTo(Chars, MaxLineLen)

InitRender ==
    /\ \E name \in FileNames : filename = Some(name)
    /\ \E line \in Lines : row_contents = <<[row_content |-> line, render |-> <<>>]>>
    /\ win_size \in WinSizes
    /\ cursor_x = 0 /\ cursor_y = 0
    /\ row_offset = 0 /\ column_offset = 0 /\ render_x = 0
    /\ dirty = 0
    /\ quit_times = QUIT_TIMES
    /\ now = 0
    /\ status_message = [message |-> None, set_time |-> None]
    /\ session = "Running"
    /\ pc = "from_file"
    /\ last_key = None
    /\ quit_presses = 0
    /\ timed_out = FALSE
    /\ raw_mode = TRUE
    /\ teardowns = 0
    /\ clears = 0
    /\ rows_changed = FALSE
    /\ message_set = status_message

\* Self::render_row(&mut row) of line 204, then StatusMessage::new (line 304)
RenderLoaded ==
    /\ pc = "from_file"
    /\ row_contents' = [i \in 1..number_of_rows |-> Row(row_contents[i].row_content)]
    /\ status_message' = [message |-> Some(HelpMessage), set_time |-> Some(now)]
    /\ message_set' = status_message'
    /\ pc' = "refresh_screen"
    /\ UNCHANGED <<filename, win_size, cursorVars, scrollVars, dirty, quit_times, now,
                   session, last_key, quit_presses, timed_out, mainVars, rows_changed>>

SpecRender == InitRender /\ [][RenderLoaded]_vars

-----------------------------------------------------------------------------
(* The StatusMessage of an editor, set and read at any times while the     *)
(* clock advances.                                                         *)

Messages == {HelpMessage, Warning(1), BytesWritten(0)}

InitStatus == Init /\ row_contents = <<>> /\ filename = None /\ win_size = <<3, 2>>

\* StatusMessage::set_message (lines 602-605)
SetMessage(message) ==
    /\ status_message' = set_message(message)
    /\ message_set' = status_message'
    /\ UNCHANGED now
    /\ statusUnchanged

\* StatusMessage::message (lines 607-617), called by draw_message_bar (line 395)
ReadMessage ==
    /\ status_message' = message_read(status_message)
    /\ UNCHANGED <<now, message_set>>
    /\ statusUnchanged

NextStatus ==
    \/ \E polls \in ShortWaits : Tick(polls)
    \/ \E message \in Messages : SetMessage(message)
    \/ ReadMessage

SpecStatus == InitStatus /\ [][NextStatus]_vars

-----------------------------------------------------------------------------
(* The editor started on a file of some lines, which may hold carriage     *)
(* returns, and saving it on Ctrl-S.                                       *)

LineChars == {97, CarriageReturn}
LineSeqs == SeqsUpTo(SeqsUpTo(LineChars, MaxChars), MaxLines)

InitRoundTrip ==
    /\ \E name \in FileNames : filename = Some(name)
    /\ \E ls \in LineSeqs : row_contents = rows_of(ls)
    /\ win_size \in WinSizes
    /\ cursor_x = 0 /\ cursor_y = 0
    /\ row_offset = 0 /\ column_offset = 0 /\ render_x = 0
    /\ dirty = 0
    /\ quit_times = QUIT_TIMES
    /\ now = 0
    /\ status_message = [message |-> Some(HelpMessage), set_time |-> Some(now)]
    /\ session = "Running"
    /\ pc = "refresh_screen"
    /\ last_key = None
    /\ quit_presses = 0
    /\ timed_out = FALSE
    /\ raw_mode = TRUE
    /\ teardowns = 0
    /\ clears = 0
    /\ rows_changed = FALSE
    /\ message_set = status_message

NextRoundTrip ==
    \/ RefreshScreen
    \/ KeySave

SpecRoundTrip == InitRoundTrip /\ [][NextRoundTrip]_vars

-----------------------------------------------------------------------------
(* The cursor column of the specification: the number of scalars before    *)
(* the byte offset cursor_x.  An offset inside a scalar, or past the end   *)
(* of the row, is no column at all (NoColumn).                             *)

NoColumn == 0 - 1
Column(row_content, x) ==
    IF is_char_boundary(row_content, x) THEN CharIndex(row_content, x) ELSE NoColumn

\* the raw content of the row the cursor is on (empty past the last row)
RawAt(rows, y) == IF y < Len(rows) THEN get_row(rows, y) ELSE <<>>

Raws(rows) == [i \in 1..Len(rows) |-> rows[i].row_content]

-----------------------------------------------------------------------------
(* C1 *)

\* the warning Ctrl-Q sets when times more presses are needed is the message set
\* last, and no frame has read it since: it is the status message as it was set,
\* however long ago
WarningSet(times) ==
    /\ message_set.message = Some(Warning(times))
    /\ status_message = message_set

\* C1 as stated: with dirty = 1 and the counter at 3, three consecutive Ctrl-Q
\* presses end the session on the third, with a warning on presses 1 and 2 only.
C1_QuitOnThirdPress ==
    (dirty = 1 /\ last_key = <<"CtrlQ">>) =>
        /\ quit_presses \in {1, 2} =>
               session = "Running" /\ WarningSet(QUIT_TIMES + 1 - quit_presses)
        /\ quit_presses = 3 => session = "Quitting"

\* C1 as amended: the session ends on the fourth consecutive Ctrl-Q press; presses
\* 1, 2 and 3 keep it running and set the warning (3, 2, 1 more times), and the
\* fourth sets no message: the message set last is still the third warning, which
\* the status message holds unless a frame found it expired.
C1_QuitOnFourthPress ==
    (dirty = 1 /\ last_key = <<"CtrlQ">>) =>
        /\ quit_presses \in 1..4
        /\ quit_presses \in 1..3 =>
               /\ session = "Running"
               /\ WarningSet(QUIT_TIMES + 1 - quit_presses)
               /\ quit_times = QUIT_TIMES - quit_presses
        /\ quit_presses = 4 =>
               /\ session = "Quitting"
               /\ message_set.message = Some(Warning(1))
               /\ status_message.message \in {None, Some(Warning(1))}

\* the fourth press ended the session, after a frame had found the third warning
\* expired and cleared it
C1_Witness ==
    /\ dirty = 1 /\ last_key = <<"CtrlQ">> /\ quit_presses = 4 /\ session = "Quitting"
    /\ now > 0 /\ status_message.message = None

-----------------------------------------------------------------------------
(* C2 *)

NoFileNameMessage == <<"No file name specified">>

\* C2: Ctrl-S on a buffer without a file path keeps the session running, shows the
\* failure as a status message and changes neither dirty nor any row.
C2_SaveWithoutPathKeepsRunning ==
    [][(KeySave /\ filename = None) =>
          /\ session' = "Running"
          /\ status_message'.message = Some(NoFileNameMessage)
          /\ dirty' = dirty
          /\ row_contents' = row_contents]_vars

-----------------------------------------------------------------------------
(* C3 *)

\* C3: Left with the cursor at column 0 of row 0 changes nothing: the cursor stays
\* at (0, 0), the buffer is unchanged and the session keeps running.
C3_LeftAtOriginIsNoOp ==
    [][(KeyMove("Left") /\ cursor_x = 0 /\ cursor_y = 0) =>
          /\ cursor_x' = 0 /\ cursor_y' = 0
          /\ row_contents' = row_contents
          /\ session' = "Running"]_vars

-----------------------------------------------------------------------------
(* C4 *)

AtEndOfRow == cursor_y < number_of_rows
              /\ Column(RawAt(row_contents, cursor_y), cursor_x) = Len(RawAt(row_contents, cursor_y))

\* C4 as stated: Right at the end of the last stored row leaves the cursor where it
\* is; Right at the end of a row that has a next row moves to column 0 of that row.
C4_RightAtEndOfLastRowIsNoOp ==
    [][(KeyMove("Right") /\ AtEndOfRow) =>
          IF cursor_y = number_of_rows - 1
          THEN cursor_x' = cursor_x /\ cursor_y' = cursor_y
          ELSE cursor_x' = 0 /\ cursor_y' = cursor_y + 1]_vars

\* C4 as amended: Right at the end of any stored row, the last one included, moves
\* the cursor to column 0 of the next row index (row_count after the last row);
\* Right with the cursor past the last row (row = row_count) leaves it unchanged.
C4_RightAtEndOfRow ==
    [][KeyMove("Right") =>
          /\ AtEndOfRow => cursor_x' = 0 /\ cursor_y' = cursor_y + 1
          /\ cursor_y = number_of_rows => cursor_x' = cursor_x /\ cursor_y' = cursor_y
          /\ row_contents' = row_contents /\ session' = "Running"]_vars

\* Right took the cursor from the single screen row 0 to past the last row: the
\* frame drawn before the key had row_offset = 0, so the cursor was on row 0.
C4_Witness ==
    /\ last_key = <<"Right">> /\ session = "Running"
    /\ number_of_rows = 1 /\ cursor_y = 1 /\ cursor_x = 0
    /\ screen_rows = 1 /\ row_offset = 0

-----------------------------------------------------------------------------
(* C5 *)

\* C5: the cursor row is within 0..row_count and the cursor column is a scalar
\* position of the row the cursor is on (column 0 past the last row).
C5_CursorClamp ==
    /\ 0 <= cursor_y /\ cursor_y <= number_of_rows
    /\ LET column == Column(RawAt(row_contents, cursor_y), cursor_x)
       IN  0 <= column /\ column <= Len(RawAt(row_contents, cursor_y))

-----------------------------------------------------------------------------
(* C6 *)

JustScrolled == session = "Running" /\ pc = "process_keypress" /\ last_key = None

InView(offset, position, size) == offset <= position /\ position < offset + size

\* C6: after the scroll of every refresh_screen the cursor row is inside the rows
\* of the viewport and render_x inside its columns; and from the cursor of every
\* frame drawn, scroll reaches that from any prior row_offset and column_offset.
C6_Viewport ==
    JustScrolled =>
        /\ InView(row_offset, cursor_y, screen_rows)
        /\ InView(column_offset, render_x, screen_columns)
        /\ \A prior \in 0..(cursor_y + screen_rows + 1) :
               InView(scroll_row_offset(prior, cursor_y, screen_rows), cursor_y, screen_rows)
        /\ \A prior \in 0..(render_x + screen_columns + 1) :
               InView(scroll_column_offset(prior, render_x, screen_columns),
                      render_x, screen_columns)

\* a frame whose viewport has scrolled down and to the right
C6_Witness == JustScrolled /\ row_offset > 0 /\ column_offset > 0

-----------------------------------------------------------------------------
(* C7 *)

\* C7: the stored render of every row is the tab expansion of its raw content.
C7_RenderCoherent ==
    \A i \in 1..number_of_rows :
        row_contents[i].render = render_row(row_contents[i].row_content)

\* a row with a tab, after a Backspace that changed the buffer
C7_Witness ==
    /\ last_key = <<"Backspace">> /\ session = "Running" /\ dirty = 2
    /\ \E i \in 1..number_of_rows :
           /\ row_contents[i].render # row_contents[i].row_content
           /\ Len(row_contents[i].row_content) = 2

-----------------------------------------------------------------------------
(* C8 *)

Spaces(n) == [i \in 1..n |-> Space]
Drop(s, n) == SubSeq(s, n + 1, Len(s))

\* render is raw with every tab that starts at rendered column col replaced by the
\* spaces that reach the next multiple of TAB_STOP above col, the rest unchanged
RECURSIVE Expands(_, _, _)
Expands(raw, render, col) ==
    IF raw = <<>> THEN render = <<>>
    ELSE IF Head(raw) = Tab
    THEN LET stop == CHOOSE m \in (col + 1)..(col + TAB_STOP) : m % TAB_STOP = 0
         IN  /\ Len(render) >= stop - col
             /\ Take(render, stop - col) = Spaces(stop - col)
             /\ Expands(Tail(raw), Drop(render, stop - col), stop)
    ELSE /\ render # <<>>
         /\ Head(render) = Head(raw)
         /\ Expands(Tail(raw), Tail(render), col + 1)

\* C8: render_row emits every non-tab scalar unchanged and every tab as 1 to 8
\* spaces that end on the next multiple of 8 above the column the tab started at.
C8_TabExpansion ==
    pc # "from_file" =>
        \A i \in 1..number_of_rows :
            Expands(row_contents[i].row_content, row_contents[i].render, 0)

\* a tab that starts at rendered column 7 and is rendered as one space
C8_Witness ==
    /\ pc # "from_file"
    /\ \E i \in 1..number_of_rows :
           /\ row_contents[i].row_content = <<97, 97, 97, 97, 97, 97, 97, Tab>>
           /\ Len(row_contents[i].render) = TAB_STOP

-----------------------------------------------------------------------------
(* C9 *)

\* C9: Backspace at column 0 of a stored row r > 0 removes row r, appends its raw
\* content to row r - 1, puts the cursor on row r - 1 at the column that was the
\* length of row r - 1, adds 1 to dirty and resets the quit counter; the other rows
\* keep content and order.  Backspace at (0, 0) changes no row, cursor or dirty.
C9_BackspaceJoins ==
    [][KeyDelete("Backspace") =>
          LET r    == cursor_y
              raws == Raws(row_contents)
          IN  /\ (cursor_x = 0 /\ 0 < r /\ r < number_of_rows) =>
                    /\ Raws(row_contents') =
                           [i \in 1..(number_of_rows - 1) |->
                               IF i < r THEN raws[i]
                               ELSE IF i = r THEN raws[r] \o raws[r + 1]
                               ELSE raws[i + 1]]
                    /\ cursor_y' = r - 1
                    /\ Column(RawAt(row_contents', r - 1), cursor_x') = Len(raws[r])
                    /\ dirty' = dirty + 1
                    /\ quit_times' = QUIT_TIMES
                    /\ session' = "Running"
              /\ (cursor_x = 0 /\ r = 0) =>
                    /\ row_contents' = row_contents
                    /\ cursor_x' = 0 /\ cursor_y' = 0
                    /\ dirty' = dirty]_vars

\* Backspace joined a row that is not empty to the end of a row that is not empty,
\* below a first row that it left alone
C9_Witness ==
    /\ last_key = <<"Backspace">> /\ session = "Running"
    /\ number_of_rows = 2 /\ cursor_y = 1
    /\ Len(row_contents[2].row_content) = 2
    /\ Column(row_contents[2].row_content, cursor_x) = 1

-----------------------------------------------------------------------------
(* C10 *)

InsertAt(raw, column, ch) == Take(raw, column) \o <<ch>> \o Drop(raw, column)

\* C10: inserting a character puts it into the raw row at the cursor column, moves
\* the cursor column forward by exactly 1, adds exactly 1 to dirty and resets the
\* quit counter to 3; with the cursor row at row_count an empty row is appended first.
C10_InsertAdvancesColumn ==
    [][\A ch \in Chars : KeyInsert(ch) =>
          LET raw    == RawAt(row_contents, cursor_y)
              column == Column(raw, cursor_x)
          IN  /\ number_of_rows' = IF cursor_y = number_of_rows
                                   THEN number_of_rows + 1 ELSE number_of_rows
              /\ RawAt(row_contents', cursor_y) = InsertAt(raw, column, ch)
              /\ cursor_y' = cursor_y
              /\ Column(RawAt(row_contents', cursor_y), cursor_x') = column + 1
              /\ dirty' = dirty + 1
              /\ quit_times' = QUIT_TIMES]_vars

-----------------------------------------------------------------------------
(* C11 *)

\* a step of process_keypress that got a key event from read_key
Dispatch == session = "Running" /\ pc = "process_keypress" /\ last_key' # None

\* a step of read_key that got no key event and no error, or of the clock
Timeout ==
    /\ session = "Running" /\ pc = "process_keypress"
    /\ last_key' = None /\ session' = "Running"

\* a step of refresh_screen
Render == session = "Running" /\ pc = "refresh_screen" /\ now' = now

\* C11 as stated: after every dispatch of a key event, the quit key's included, the
\* next thing the loop does is one render call; a timeout is followed by no render.
C11_RenderEndsEveryCycle ==
    [][/\ Dispatch => session' = "Running" /\ pc' = "refresh_screen"
       /\ Render => pc' # "refresh_screen" \/ session' # "Running"
       /\ Timeout => pc' = "process_keypress"]_vars

\* C11 as amended: every dispatch that leaves the session running is followed by
\* exactly one render call before the next read, and that call draws the state
\* the key left (same rows, cursor and dirty; render_x of that cursor); once the
\* session has ended, by a dispatch or otherwise, the only step is the end of the
\* process, so no render follows; a timeout changes nothing that is drawn and is
\* followed by no render.
C11_RenderFollowsRunningDispatch ==
    [][/\ session # "Running" => pc' = "exit"
       /\ Dispatch => (session' = "Running" => pc' = "refresh_screen")
       /\ Render =>
             /\ pc' # "refresh_screen" \/ session' # "Running"
             /\ UNCHANGED <<row_contents, cursorVars, dirty, quit_times>>
             /\ session' = "Running" =>
                    render_x' = IF cursor_y < number_of_rows
                                THEN get_render_x(RawAt(row_contents, cursor_y), cursor_x)
                                ELSE 0
       /\ Timeout =>
             /\ pc' = "process_keypress"
             /\ UNCHANGED <<row_contents, cursorVars, scrollVars, dirty, status_message>>]_vars

\* the fourth Ctrl-Q on a modified buffer ended the session, after polls that had
\* timed out: the process ended with no render after the key
C11_Witness ==
    /\ session = "Quitting" /\ last_key = <<"CtrlQ">> /\ dirty > 0
    /\ pc = "exit" /\ now > 0
    /\ quit_presses = QUIT_TIMES + 1

-----------------------------------------------------------------------------
(* C12 *)

\* the process has ended
Exited == pc = "exit"

\* C12: while the session runs the terminal is in raw mode and no
\* teardown has run; once the process has ended, after a quit, an error returned
\* from rendering, key reading or saving, or a panic, the teardown has run exactly
\* once, the screen is cleared and the terminal is out of raw mode.
C12_TeardownOnEveryExit ==
    /\ session = "Running" => raw_mode /\ teardowns = 0
    /\ Exited => teardowns = 1 /\ clears = 1 /\ ~raw_mode

-----------------------------------------------------------------------------
(* C13 *)

\* C13: in a running session, after a key event other than Ctrl-Q the quit counter
\* is 3; and whenever it is below 3 the key events read last are a run of Ctrl-Q
\* presses on a modified buffer, each of which took the counter down by one.
C13_QuitCounterReset ==
    session = "Running" =>
        /\ (last_key # None /\ last_key # <<"CtrlQ">>) => quit_times = QUIT_TIMES
        /\ quit_times \in 0..QUIT_TIMES
        /\ quit_times < QUIT_TIMES =>
               /\ quit_presses > 0
               /\ dirty > 0
               /\ quit_times = QUIT_TIMES - quit_presses

\* a key that is no command, after three Ctrl-Q presses whose last warning still
\* is the status message: the counter is back at 3
C13_Witness ==
    /\ session = "Running" /\ last_key = <<"Other">>
    /\ status_message.message = Some(Warning(1))
    /\ quit_times = QUIT_TIMES /\ dirty > 0

-----------------------------------------------------------------------------
(* C14 *)

NavigationKeys == {<<direction>> : direction \in Directions} \cup {<<"PageUp">>, <<"PageDown">>}

\* C14: dirty goes down only by a Ctrl-S that succeeds, which sets it to 0; the
\* navigation and page keys leave it as it is; and whenever dirty is 0, no row was
\* changed, added or removed since the load or the last save that succeeded.
C14_DirtyCounter ==
    [][/\ dirty' < dirty =>
             /\ Dispatch /\ last_key' = <<"CtrlS">>
             /\ session' = "Running"
             /\ dirty' = 0
       /\ (Dispatch /\ last_key' \in NavigationKeys) =>
             dirty' = dirty /\ row_contents' = row_contents
       /\ row_contents' # row_contents => dirty' > dirty
       /\ dirty' = 0 => ~rows_changed']_vars

\* a save that succeeded after an insertion: dirty is back at 0 on a buffer that
\* holds more scalars than the file that was loaded
C14_Witness ==
    /\ session = "Running" /\ last_key = <<"CtrlS">>
    /\ dirty = 0 /\ ~rows_changed
    /\ TotalChars(row_contents) > MaxFileLen

-----------------------------------------------------------------------------
(* C15 *)

EndsWithCR(line) == line # <<>> /\ line[Len(line)] = CarriageReturn

\* Ctrl-S saved the buffer: save returned Ok
Saved == pc = "process_keypress" /\ last_key' = <<"CtrlS">> /\ session' = "Running"

\* the raw rows from_file makes of the text save wrote for the rows; strips_last:
\* the standard library of the build strips a carriage return that ends the text
Reloaded(rows, strips_last) ==
    Raws(rows_of(SplitLines(JoinRows(rows), <<>>, <<>>, strips_last)))

\* C15 as stated: the rows loaded from the text that save writes are the rows that
\* were saved, in the same order and with the same raw content.
C15_RoundTrip ==
    [][Saved => \A strips_last \in BOOLEAN :
                    Reloaded(row_contents', strips_last) = Raws(row_contents')]_vars

\* C15 as amended: the rows loaded from the text that save writes are the rows that
\* were saved, provided that the last row is not empty and that no row ends with a
\* carriage return.
C15_RoundTripOfUnambiguousLines ==
    [][Saved =>
          LET ls == Raws(row_contents')
          IN  ((ls = <<>> \/ ls[Len(ls)] # <<>>) /\ \A i \in 1..Len(ls) : ~EndsWithCR(ls[i]))
                  => \A strips_last \in BOOLEAN :
                         Reloaded(row_contents', strips_last) = ls]_vars

\* three rows were saved: an empty row between two rows that are not empty, one of
\* which holds a carriage return before its last scalar
C15_Witness ==
    /\ last_key = <<"CtrlS">> /\ session = "Running" /\ number_of_rows = 3
    /\ status_message.message = Some(BytesWritten(5))
    /\ row_contents[1].row_content = <<CarriageReturn, 97>>
    /\ row_contents[2].row_content = <<>>
    /\ row_contents[3].row_content # <<>>

-----------------------------------------------------------------------------
(* C16 *)

\* the message was set last at most MESSAGE_TTL seconds ago
SetWithinTTL == elapsed(message_set.set_time[1]) <= MESSAGE_TTL * 1000

\* what a read of the status message returns, by the claim
ShownByAge == IF SetWithinTTL THEN message_set.message ELSE None

\* C16: at any time a read of the status message returns the text set last if
\* that was set at most 5 seconds before, and nothing otherwise; a read after the
\* 5 seconds leaves neither text nor timestamp; setting a message makes a read
\* return it and stamps it with the time of the setting.
C16_LazyExpiry ==
    [][/\ message_shown(status_message) = ShownByAge
       /\ message_shown(status_message)' = ShownByAge'
       /\ ReadMessage =>
             /\ SetWithinTTL => status_message' = status_message
             /\ ~SetWithinTTL => status_message' = [message |-> None, set_time |-> None]
       /\ \A message \in Messages : SetMessage(message) =>
             /\ message_shown(status_message)' = Some(message)
             /\ status_message'.set_time = Some(now)]_vars

\* a message set after the first poll was read after its 5 seconds and is cleared
C16_Witness ==
    /\ status_message = [message |-> None, set_time |-> None]
    /\ message_set = [message |-> Some(Warning(1)), set_time |-> Some(1)]
    /\ elapsed(1) > MESSAGE_TTL * 1000

-----------------------------------------------------------------------------
(* C17 *)

\* C17: for every row and every column c from 0 to the number of scalars of the
\* row, get_render_x at the byte offset of column c takes its slice and returns
\* the number of scalars of render_row of the first c scalars; at the end of the
\* row that is the number of scalars of the stored render.
C17_RenderXAgreesWithRender ==
    pc # "from_file" =>
        \A i \in 1..number_of_rows :
            LET raw == row_contents[i].row_content
            IN  \A c \in 0..Len(raw) :
                    LET x == str_len(Take(raw, c))
                    IN  /\ ~get_render_x_panics(raw, x)
                        /\ get_render_x(raw, x) = Len(render_row(Take(raw, c)))
                        /\ c = Len(raw) =>
                               get_render_x(raw, x) = Len(row_contents[i].render)

\* a row with a tab after U+00E9 (two bytes, one column) and with a second tab:
\* the render column at its end is 16
C17_Witness ==
    /\ pc # "from_file"
    /\ \E i \in 1..number_of_rows :
           /\ row_contents[i].row_content = <<233, Tab, 97, Tab>>
           /\ get_render_x(row_contents[i].row_content, 5) = 2 * TAB_STOP

-----------------------------------------------------------------------------
(* C18 *)

\* C18: the insertion of any scalar, one of several bytes included, succeeds and
\* leaves the cursor column a scalar position of its row (0 to the number of
\* scalars of the row), and the render that follows the insertion succeeds.
C18_ColumnsIndexScalars ==
    [][/\ \A ch \in Chars : KeyInsert(ch) =>
             LET column == Column(RawAt(row_contents', cursor_y'), cursor_x')
             IN  /\ session' = "Running"
                 /\ 0 <= column /\ column <= Len(RawAt(row_contents', cursor_y'))
       /\ (Render /\ \E ch \in Chars : last_key = <<"Char", ch>>) =>
             session' = "Running"]_vars

-----------------------------------------------------------------------------
(* C19 *)

\* the row a page key ends on, by the claim
PageEndRow(val) ==
    IF val = "PageDown"
    THEN Min(row_offset + 2 * screen_rows - 1, number_of_rows)
    ELSE Max(row_offset - screen_rows, 0)

\* C19: PageDown ends on row min(row_offset + 2 * screen_rows - 1, row_count) and
\* PageUp on row max(row_offset - screen_rows, 0); the cursor column after either
\* is a column of the final row (0 past the last row) that is at most the column
\* before; rows and dirty are unchanged and the session keeps running.
C19_PageClampThenStep ==
    [][\A val \in {"PageUp", "PageDown"} : KeyPage(val) =>
          LET before == Column(RawAt(row_contents, cursor_y), cursor_x)
              after  == Column(RawAt(row_contents, cursor_y'), cursor_x')
          IN  /\ cursor_y' = PageEndRow(val)
              /\ 0 <= after /\ after <= before
              /\ after <= Len(RawAt(row_contents, cursor_y'))
              /\ row_contents' = row_contents /\ dirty' = dirty
              /\ session' = "Running"]_vars

-----------------------------------------------------------------------------
(* C20 *)

\* C20: a Ctrl-Q press on a modified buffer ends the session only with the quit
\* counter at 0, which is only as the fourth press of a run of Ctrl-Q presses whose
\* first three each set the warning (the last of them is the message set last,
\* and the status message unless a frame found it expired and cleared it);
\* with the counter above 0 it warns, takes the counter down and keeps the session
\* running; a Ctrl-Q press on a buffer that is not modified ends the session.
C20_NoQuitWithoutConfirmation ==
    [][KeyQuit =>
          /\ (dirty > 0 /\ session' = "Quitting") =>
                 /\ quit_times = 0
                 /\ quit_presses = QUIT_TIMES
                 /\ message_set.message = Some(Warning(1))
                 /\ status_message.message \in {None, Some(Warning(1))}
          /\ (dirty > 0 /\ quit_times > 0) =>
                 /\ session' = "Running"
                 /\ status_message' = set_message(Warning(quit_times))
                 /\ quit_times' = quit_times - 1
          /\ dirty = 0 => session' = "Quitting"
          /\ dirty' = dirty /\ row_contents' = row_contents]_vars

\* the session was ended by Ctrl-Q with two edits not saved, after three warnings,
\* the last of which had expired and was cleared by the frame before the quit
C20_Witness ==
    /\ session = "Quitting" /\ dirty = 2
    /\ quit_times = 0
    /\ message_set.message = Some(Warning(1))
    /\ message_expired(message_set)
    /\ status_message.message = None

-----------------------------------------------------------------------------
(* C21 *)

\* C21: a Delete key event leaves the cursor row and the cursor column as they
\* were: when it changes no row and not dirty (as with the cursor at the end of
\* the last stored row), and also when it removes a character or joins the next
\* row to the row of the cursor.
C21_DeleteKeepsCursor ==
    [][KeyDelete("Delete") =>
          LET before == Column(RawAt(row_contents, cursor_y), cursor_x)
              after  == Column(RawAt(row_contents', cursor_y'), cursor_x')
          IN  /\ (row_contents' = row_contents /\ dirty' = dirty) =>
                     cursor_y' = cursor_y /\ after = before
              /\ row_contents' # row_contents =>
                     cursor_y' = cursor_y /\ after = before]_vars

====
